---------------------------- MODULE Spec2Model ----------------------------
(*************************************************************************)
(* Model of the interpreter core of the Python command terminal          *)
(* (terminal.py): tokenizer, alias table, command dispatch, environment  *)
(* map, history log, cd, the external-process bridge and the text REPL   *)
(* loop.                                                                 *)
(*                                                                       *)
(* A Python str is modelled as a sequence of one-character strings, so   *)
(* that splitting, stripping, joining and exact comparison are computed  *)
(* as the code computes them.                                            *)
(*************************************************************************)
EXTENDS Integers, Sequences, FiniteSets, TLC

(* ------------------------------ bounds ------------------------------ *)

\* Lines of any kind are accepted while the history log is shorter than this.
MaxFree == 2

\* A session that consists of `history` lines only is followed up to this
\* length of the history log (longer than the 20-entry view).
MaxHistory == 22

\* A session that consists of cd lines only is followed up to this length.
MaxCd == 4

\* Lines handed to parse_command on its own are built up to this length.
MaxLine == 4

(* ------------------------- program constants ------------------------ *)

\* command_history[-20:]
HistoryView == 20

\* f"{i:3} {cmd}"
NumWidth == 3

\* subprocess.run(..., timeout=30)
Timeout == 30

(* --------------------------- text literals -------------------------- *)

EXIT == <<"E","X","I","T">>
ErrorPrefix == <<"E","r","r","o","r",":"," ">>
TimedOutText == <<"E","r","r","o","r",":"," ","C","o","m","m","a","n","d"," ","t","i","m","e","d"," ","o","u","t">>
NotFoundPre == <<"E","r","r","o","r",":"," ","C","o","m","m","a","n","d"," ","'">>
NotFoundPost == <<"'"," ","n","o","t"," ","f","o","u","n","d">>
StderrMark == <<"\n","E","r","r","o","r",":"," ">>
CdPrefix == <<"c","d",":"," ">>
NoSuchFile == <<":"," ","N","o"," ","s","u","c","h"," ","f","i","l","e"," ","o","r"," ","d","i","r","e","c","t","o","r","y">>
ExportMissing == <<"e","x","p","o","r","t",":"," ","m","i","s","s","i","n","g"," ","o","p","e","r","a","n","d">>
ExportInvalidPre == <<"e","x","p","o","r","t",":"," ","i","n","v","a","l","i","d"," ","f","o","r","m","a","t"," ","'">>
AliasInvalidPre == <<"a","l","i","a","s",":"," ","i","n","v","a","l","i","d"," ","f","o","r","m","a","t"," ","'">>
UnaliasMissing == <<"u","n","a","l","i","a","s",":"," ","m","i","s","s","i","n","g"," ","o","p","e","r","a","n","d">>
UnaliasPrefix == <<"u","n","a","l","i","a","s",":"," ">>
NotFoundSuffix == <<":"," ","n","o","t"," ","f","o","u","n","d">>
EnvPrefix == <<"e","n","v",":"," ">>
\* "\033[2J\033[H"; the escape character is written "ESC"
ClearScreen == <<"ESC","[","2","J","ESC","[","H">>
\* str() of the OSError that os.environ[''] = value raises
EInval == <<"[","E","r","r","n","o"," ","2","2","]"," ","I","n","v","a","l","i","d"," ","a","r","g","u","m","e","n","t">>
\* str() of the PermissionError that os.chdir / subprocess raise, up to the path
EAcces == <<"[","E","r","r","n","o"," ","1","3","]"," ","P","e","r","m","i","s","s","i","o","n"," ","d","e","n","i","e","d",":"," ">>
OLDPWD == <<"O","L","D","P","W","D">>
HOME == <<"H","O","M","E">>

SP == <<" ">>
NL == <<"\n">>
SQ == <<"'">>
EQ == <<"=">>
SLASH == <<"/">>
TILDE == <<"~">>
DASH == <<"-">>
DOT == <<".">>
DOTDOT == <<".",".">>

(* --------------------------- str operations ------------------------- *)

\* characters str.strip() removes
Whitespace == {" ", "\n", "\t"}

\* s[i:] with a 1-based i
Drop(s, i) == SubSeq(s, i, Len(s))

\* s.lstrip(chars)
RECURSIVE LStrip(_, _)
LStrip(s, chars) ==
    IF s # <<>> /\ Head(s) \in chars THEN LStrip(Tail(s), chars) ELSE s

\* s.rstrip(chars)
RECURSIVE RStrip(_, _)
RStrip(s, chars) ==
    IF s # <<>> /\ s[Len(s)] \in chars
    THEN RStrip(SubSeq(s, 1, Len(s) - 1), chars) ELSE s

\* s.strip(chars)
StripChars(s, chars) == RStrip(LStrip(s, chars), chars)

\* s.strip()
Strip(s) == StripChars(s, Whitespace)

\* c in s
Contains(s, c) == \E i \in 1..Len(s) : s[i] = c

\* s.find(c, from) as a 1-based position, 0 when absent
Find(s, c, from) ==
    IF \E i \in from..Len(s) : s[i] = c
    THEN CHOOSE i \in from..Len(s) : s[i] = c /\ \A j \in from..(i - 1) : s[j] # c
    ELSE 0

\* s.startswith(p)
StartsWith(s, p) == Len(s) >= Len(p) /\ SubSeq(s, 1, Len(p)) = p

\* sep.join(parts)
RECURSIVE Join(_, _)
Join(parts, sep) ==
    IF parts = <<>> THEN <<>>
    ELSE IF Len(parts) = 1 THEN parts[1]
    ELSE parts[1] \o sep \o Join(Tail(parts), sep)

\* s.split(sep) for a one-character sep
RECURSIVE Split(_, _)
Split(s, c) ==
    LET i == Find(s, c, 1) IN
    IF i = 0 THEN <<s>>
    ELSE <<SubSeq(s, 1, i - 1)>> \o Split(Drop(s, i + 1), c)

\* arg.split("=", 1) when "=" in arg
SplitFirst(s, c) ==
    LET i == Find(s, c, 1) IN <<SubSeq(s, 1, i - 1), Drop(s, i + 1)>>

\* str(n) for n >= 0
Digit(d) == <<"0","1","2","3","4","5","6","7","8","9">>[d + 1]

RECURSIVE Str(_)
Str(n) == IF n < 10 THEN <<Digit(n)>> ELSE Str(n \div 10) \o <<Digit(n % 10)>>

\* f"{n:w}": right-aligned in a field of w characters
RECURSIVE PadLeft(_, _)
PadLeft(s, w) == IF Len(s) >= w THEN s ELSE PadLeft(SP \o s, w)

(* ----------------------------- tokenizer ----------------------------- *)

\* ParseFrom in which either quote character closes an open quote
RECURSIVE ParseFromAnyQuote(_, _, _, _, _, _)
ParseFromAnyQuote(command_line, i, tokens, current_token, in_quotes, quote_char) ==
    IF i > Len(command_line)
    THEN IF current_token # <<>> THEN Append(tokens, current_token) ELSE tokens
    ELSE LET char == command_line[i] IN
         IF char \in {"\"", "'"} /\ ~in_quotes
         THEN ParseFromAnyQuote(command_line, i + 1, tokens, current_token, TRUE, char)
         ELSE IF char \in {"\"", "'"} /\ in_quotes
         THEN ParseFromAnyQuote(command_line, i + 1, tokens, current_token, FALSE, "")
         ELSE IF char = " " /\ ~in_quotes
         THEN IF current_token # <<>>
              THEN ParseFromAnyQuote(command_line, i + 1,
                                     Append(tokens, current_token), <<>>,
                                     in_quotes, quote_char)
              ELSE ParseFromAnyQuote(command_line, i + 1, tokens, current_token,
                                     in_quotes, quote_char)
         ELSE ParseFromAnyQuote(command_line, i + 1, tokens,
                                Append(current_token, char), in_quotes, quote_char)

\* the while loop of parse_command from position i; quote_char is "" for None
RECURSIVE ParseFrom(_, _, _, _, _, _)
ParseFrom(command_line, i, tokens, current_token, in_quotes, quote_char) ==
    IF i > Len(command_line)
    THEN IF current_token # <<>> THEN Append(tokens, current_token) ELSE tokens
    ELSE LET char == command_line[i] IN
         IF char \in {"\"", "'"} /\ ~in_quotes
         THEN ParseFrom(command_line, i + 1, tokens, current_token, TRUE, char)
         ELSE IF char = quote_char /\ in_quotes
         THEN ParseFrom(command_line, i + 1, tokens, current_token, FALSE, "")
         ELSE IF char = " " /\ ~in_quotes
         THEN IF current_token # <<>>
              THEN ParseFrom(command_line, i + 1, Append(tokens, current_token),
                             <<>>, in_quotes, quote_char)
              ELSE ParseFrom(command_line, i + 1, tokens, current_token,
                             in_quotes, quote_char)
         ELSE ParseFrom(command_line, i + 1, tokens, Append(current_token, char),
                        in_quotes, quote_char)

parse_command(command_line) ==
    IF Strip(command_line) = <<>> THEN <<>>
    ELSE ParseFrom(command_line, 1, <<>>, <<>>, FALSE, "")

(* ------------------------- host file system ------------------------- *)

\* The directory tree of the host: / , /d (start directory), /d/s, /h (home)
\* and /d/x, a directory the user has no search permission on; /d/f is a file.
Dirs == { <<"/">>, <<"/","d">>, <<"/","d","/","s">>, <<"/","h">>, <<"/","d","/","x">> }

NoSearchDirs == { <<"/","d","/","x">> }

Files == { <<"/","d","/","f">> }

StartDir == <<"/","d">>

\* home directory in the password database, used when HOME is unset
PwdHome == <<"/","h">>

\* programs on the search path
Programs == { <<"p">> }

\* os.path.isabs
isabs(path) == StartsWith(path, SLASH)

\* os.path.join(a, b)
join(a, b) ==
    IF StartsWith(b, SLASH) THEN b
    ELSE IF a = <<>> \/ a[Len(a)] = "/" THEN a \o b
    ELSE a \o SLASH \o b

\* the component loop of posixpath.normpath
RECURSIVE NormComps(_, _, _)
NormComps(comps, new_comps, initial_slashes) ==
    IF comps = <<>> THEN new_comps
    ELSE LET comp == Head(comps) IN
         IF comp = <<>> \/ comp = DOT
         THEN NormComps(Tail(comps), new_comps, initial_slashes)
         ELSE IF comp # DOTDOT
                 \/ (initial_slashes = 0 /\ new_comps = <<>>)
                 \/ (new_comps # <<>> /\ new_comps[Len(new_comps)] = DOTDOT)
         THEN NormComps(Tail(comps), Append(new_comps, comp), initial_slashes)
         ELSE IF new_comps # <<>>
         THEN NormComps(Tail(comps), SubSeq(new_comps, 1, Len(new_comps) - 1),
                        initial_slashes)
         ELSE NormComps(Tail(comps), new_comps, initial_slashes)

\* normpath: the number of leading slashes that are kept
initial_slashes_of(path) ==
    IF ~StartsWith(path, SLASH) THEN 0
    ELSE IF StartsWith(path, SLASH \o SLASH)
            /\ ~StartsWith(path, SLASH \o SLASH \o SLASH) THEN 2
    ELSE 1

\* normpath: "/" * initial_slashes + "/".join(comps), or "."
norm_result(initial_slashes, comps) ==
    IF initial_slashes = 0 /\ comps = <<>> THEN DOT
    ELSE (IF initial_slashes = 2 THEN SLASH \o SLASH
          ELSE IF initial_slashes = 1 THEN SLASH ELSE <<>>) \o Join(comps, SLASH)

norm_with(path, initial_slashes) ==
    norm_result(initial_slashes, NormComps(Split(path, "/"), <<>>, initial_slashes))

\* os.path.normpath
normpath(path) ==
    IF path = <<>> THEN DOT ELSE norm_with(path, initial_slashes_of(path))

\* os.path.abspath, relative to the OS-level current directory cwd
abspath(path, cwd) ==
    normpath(IF isabs(path) THEN path ELSE join(cwd, path))

\* os.environ['HOME'], or the home of the current user in the password
\* database; environ is a sequence of <<name, value>> pairs
userhome_of(environ) ==
    IF \E k \in 1..Len(environ) : environ[k][1] = HOME
    THEN environ[CHOOSE k \in 1..Len(environ) : environ[k][1] = HOME][2]
    ELSE PwdHome

\* expanduser: (userhome + path[i:]) or "/"
home_result(res) == IF res = <<>> THEN SLASH ELSE res

\* expanduser, given the position i of the first "/" (or the end of path)
expand_at(path, i, environ) ==
    IF i # 2 THEN path
    ELSE home_result(RStrip(userhome_of(environ), {"/"}) \o Drop(path, i))

first_slash(path, f) == IF f = 0 THEN Len(path) + 1 ELSE f

\* os.path.expanduser; the password database knows the home of the current
\* user only, so "~name" stays as it is
expanduser(path, environ) ==
    IF ~StartsWith(path, TILDE) THEN path
    ELSE expand_at(path, first_slash(path, Find(path, "/", 2)), environ)

\* os.path.exists(target) and os.path.isdir(target)
isdir(target) == target \in Dirs

\* os.chdir(target) raises PermissionError
chdir_denied(target) == target \in NoSearchDirs

(* ------------------------- command registry ------------------------- *)

n_cd == <<"c","d">>
n_pwd == <<"p","w","d">>
n_ls == <<"l","s">>
n_dir == <<"d","i","r">>
n_mkdir == <<"m","k","d","i","r">>
n_rmdir == <<"r","m","d","i","r">>
n_rm == <<"r","m">>
n_cp == <<"c","p">>
n_mv == <<"m","v">>
n_cat == <<"c","a","t">>
n_echo == <<"e","c","h","o">>
n_touch == <<"t","o","u","c","h">>
n_find == <<"f","i","n","d">>
n_grep == <<"g","r","e","p">>
n_ps == <<"p","s">>
n_top == <<"t","o","p">>
n_kill == <<"k","i","l","l">>
n_env == <<"e","n","v">>
n_export == <<"e","x","p","o","r","t">>
n_history == <<"h","i","s","t","o","r","y">>
n_clear == <<"c","l","e","a","r">>
n_exit == <<"e","x","i","t">>
n_help == <<"h","e","l","p">>
n_whoami == <<"w","h","o","a","m","i">>
n_date == <<"d","a","t","e">>
n_uptime == <<"u","p","t","i","m","e">>
n_df == <<"d","f">>
n_free == <<"f","r","e","e">>
n_alias == <<"a","l","i","a","s">>
n_unalias == <<"u","n","a","l","i","a","s">>

\* self.builtin_commands: command name -> handler
builtin_commands ==
    n_cd :> "cmd_cd" @@ n_pwd :> "cmd_pwd" @@ n_ls :> "cmd_ls"
    @@ n_dir :> "cmd_ls" @@ n_mkdir :> "cmd_mkdir" @@ n_rmdir :> "cmd_rmdir"
    @@ n_rm :> "cmd_rm" @@ n_cp :> "cmd_cp" @@ n_mv :> "cmd_mv"
    @@ n_cat :> "cmd_cat" @@ n_echo :> "cmd_echo" @@ n_touch :> "cmd_touch"
    @@ n_find :> "cmd_find" @@ n_grep :> "cmd_grep" @@ n_ps :> "cmd_ps"
    @@ n_top :> "cmd_top" @@ n_kill :> "cmd_kill" @@ n_env :> "cmd_env"
    @@ n_export :> "cmd_export" @@ n_history :> "cmd_history" @@ n_clear :> "cmd_clear"
    @@ n_exit :> "cmd_exit" @@ n_help :> "cmd_help" @@ n_whoami :> "cmd_whoami"
    @@ n_date :> "cmd_date" @@ n_uptime :> "cmd_uptime" @@ n_df :> "cmd_df"
    @@ n_free :> "cmd_free" @@ n_alias :> "cmd_alias" @@ n_unalias :> "cmd_unalias"

\* the handlers that read or write session state, modelled one by one; every
\* other handler passes its arguments to the host and returns the host's text
SessionHandlers ==
    {"cmd_cd", "cmd_pwd", "cmd_echo", "cmd_env", "cmd_export", "cmd_history",
     "cmd_clear", "cmd_exit", "cmd_alias", "cmd_unalias"}

(* --------------------------- dict operations ------------------------ *)

\* A Python dict is a sequence of <<key, value>> pairs in insertion order.
Keys(d) == { d[i][1] : i \in 1..Len(d) }

\* k in d
Has(d, k) == k \in Keys(d)

\* d[k]
Get(d, k) == d[CHOOSE i \in 1..Len(d) : d[i][1] = k][2]

\* d.get(k, default)
GetOr(d, k, default) == IF Has(d, k) THEN Get(d, k) ELSE default

\* d[k] = v
Put(d, k, v) ==
    IF Has(d, k)
    THEN [i \in 1..Len(d) |-> IF d[i][1] = k THEN <<k, v>> ELSE d[i]]
    ELSE Append(d, <<k, v>>)

\* del d[k]
Del(d, k) == SelectSeq(d, LAMBDA e : e[1] # k)

(* ----------------------------- results ------------------------------ *)

\* A handler either returns a str or raises an exception whose str() is msg;
\* s is the session state it leaves behind.
Return(s, text) == [s |-> s, exc |-> FALSE, ret |-> text]

Raise(s, msg) == [s |-> s, exc |-> TRUE, ret |-> msg]

(* ----------------------------- handlers ----------------------------- *)

\* cmd_cd: the target named by the arguments
cd_arg(s, args) ==
    IF args = <<>> THEN expanduser(TILDE, s.os_environ)
    ELSE IF args[1] = DASH
    THEN GetOr(s.environment_vars, OLDPWD, s.current_dir)
    ELSE args[1]

\* cmd_cd: if not os.path.isabs(target): target = os.path.join(current_dir, target)
make_abs(dir, target) == IF ~isabs(target) THEN join(dir, target) ELSE target

\* the target cmd_cd resolves before it looks at the file system
cd_target(s, args) ==
    abspath(make_abs(s.current_dir, expanduser(cd_arg(s, args), s.os_environ)),
            s.os_cwd)

\* cmd_cd: os.chdir(target) after the session state was written
cd_chdir(s1, target) ==
    IF chdir_denied(target)
    THEN Return(s1, CdPrefix \o EAcces \o SQ \o target \o SQ)
    ELSE Return([s1 EXCEPT !.os_cwd = target], <<>>)

\* cd_to with the previous-directory key written before the target is checked
cd_to_oldpwd_first(s, target) ==
    IF isdir(target)
    THEN cd_chdir([s EXCEPT !.environment_vars = Put(@, OLDPWD, s.current_dir),
                            !.current_dir = target],
                  target)
    ELSE Return([s EXCEPT !.environment_vars = Put(@, OLDPWD, s.current_dir)],
                CdPrefix \o target \o NoSuchFile)

\* cd_to with the previous-directory key written after current_dir
cd_to_oldpwd_after(s, target) ==
    IF isdir(target)
    THEN cd_chdir([s EXCEPT !.environment_vars = Put(@, OLDPWD, target),
                            !.current_dir = target],
                  target)
    ELSE Return(s, CdPrefix \o target \o NoSuchFile)

\* cmd_cd: the try block
cd_to(s, target) ==
    IF isdir(target)
    THEN cd_chdir([s EXCEPT !.environment_vars = Put(@, OLDPWD, s.current_dir),
                            !.current_dir = target],
                  target)
    ELSE Return(s, CdPrefix \o target \o NoSuchFile)

cmd_cd(s, args) == cd_to(s, cd_target(s, args))

cmd_pwd(s, args) == Return(s, s.current_dir)

cmd_echo(s, args) == Return(s, Join(args, SP))

cmd_env(s, args) ==
    IF args = <<>>
    THEN Return(s, Join([i \in 1..Len(s.environment_vars) |->
                           s.environment_vars[i][1] \o EQ \o s.environment_vars[i][2]],
                        NL))
    ELSE Return(s, GetOr(s.environment_vars, args[1],
                         EnvPrefix \o args[1] \o NotFoundSuffix))

\* cmd_export: one key=value argument; the session map is written first, then
\* os.environ, which raises OSError for an empty name
export_one(s, key, value) ==
    IF key = <<>>
    THEN Raise([s EXCEPT !.environment_vars = Put(@, key, value)], EInval)
    ELSE Return([s EXCEPT !.environment_vars = Put(@, key, value),
                          !.os_environ = Put(@, key, value)], <<>>)

\* the for loop of cmd_export over the remaining arguments
RECURSIVE ExportLoop(_, _)
export_next(r, rest) == IF r.exc THEN r ELSE ExportLoop(r.s, rest)

export_kv(s, kv, rest) == export_next(export_one(s, kv[1], kv[2]), rest)

ExportLoop(s, args) ==
    IF args = <<>> THEN Return(s, <<>>)
    ELSE IF Contains(Head(args), "=")
    THEN export_kv(s, SplitFirst(Head(args), "="), Tail(args))
    ELSE Return(s, ExportInvalidPre \o Head(args) \o SQ)

cmd_export(s, args) ==
    IF args = <<>> THEN Return(s, ExportMissing) ELSE ExportLoop(s, args)

\* self.command_history[-20:]
last_entries(command_history) ==
    IF Len(command_history) <= HistoryView THEN command_history
    ELSE SubSeq(command_history, Len(command_history) - HistoryView + 1,
                Len(command_history))

\* enumerate(shown, 1): the pairs (i, cmd)
enumerate1(shown) == [i \in 1..Len(shown) |-> <<i, shown[i]>>]

\* enumerate(self.command_history[-20:], 1): the pairs that are shown
history_view(command_history) == enumerate1(last_entries(command_history))

\* "\n".join(f"{i:3} {cmd}" for the pairs of the view)
history_text(view) ==
    Join([i \in 1..Len(view) |->
            PadLeft(Str(view[i][1]), NumWidth) \o SP \o view[i][2]], NL)

cmd_history(s, args) ==
    IF s.command_history = <<>> THEN Return(s, <<>>)
    ELSE Return(s, history_text(history_view(s.command_history)))

cmd_clear(s, args) == Return(s, ClearScreen)

cmd_exit(s, args) == Return(s, EXIT)

\* the for loop of cmd_alias over the remaining arguments
RECURSIVE AliasLoop(_, _)
alias_kv(s, kv, rest) ==
    AliasLoop([s EXCEPT !.aliases = Put(@, kv[1], StripChars(kv[2], {"'", "\""}))],
              rest)

AliasLoop(s, args) ==
    IF args = <<>> THEN Return(s, <<>>)
    ELSE IF Contains(Head(args), "=")
    THEN alias_kv(s, SplitFirst(Head(args), "="), Tail(args))
    ELSE Return(s, AliasInvalidPre \o Head(args) \o SQ)

cmd_alias(s, args) ==
    IF args = <<>>
    THEN Return(s, Join([i \in 1..Len(s.aliases) |->
                           s.aliases[i][1] \o EQ \o SQ \o s.aliases[i][2] \o SQ],
                        NL))
    ELSE AliasLoop(s, args)

\* the for loop of cmd_unalias over the remaining arguments
RECURSIVE UnaliasLoop(_, _)
UnaliasLoop(s, args) ==
    IF args = <<>> THEN Return(s, <<>>)
    ELSE IF Has(s.aliases, Head(args))
    THEN UnaliasLoop([s EXCEPT !.aliases = Del(@, Head(args))], Tail(args))
    ELSE Return(s, UnaliasPrefix \o Head(args) \o NotFoundSuffix)

cmd_unalias(s, args) ==
    IF args = <<>> THEN Return(s, UnaliasMissing) ELSE UnaliasLoop(s, args)

\* cmd_ls ... cmd_free: the handlers that hand their arguments to the file
\* system or the process table and return the text the host gives, without
\* reading or writing session state; text is that host-determined result
cmd_passthrough(s, args, text) == Return(s, text)

(* ----------------------- external process bridge -------------------- *)

\* What a child process does: how long it runs and what it writes.
Durations == {1, Timeout + 1}

Stdouts == { <<>>, EXIT \o NL }

Stderrs == { <<>>, <<"w">> }

ExtBehaviours == [duration : Durations, stdout : Stdouts, stderr : Stderrs]

\* output = result.stdout; if result.stderr: output += "\nError: " + stderr
captured(ext) ==
    ext.stdout \o (IF ext.stderr # <<>> THEN StderrMark \o ext.stderr ELSE <<>>)

\* execute_external_command that waits for the child without a time limit
execute_external_no_timeout(s, cmd, args, ext) ==
    IF s.current_dir \in NoSearchDirs
    THEN Return(s, ErrorPrefix \o EAcces \o SQ \o s.current_dir \o SQ)
    ELSE IF cmd \notin Programs
    THEN Return(s, NotFoundPre \o cmd \o NotFoundPost)
    ELSE Return(s, Strip(captured(ext)))

execute_external_command(s, cmd, args, ext) ==
    IF s.current_dir \in NoSearchDirs
    THEN Return(s, ErrorPrefix \o EAcces \o SQ \o s.current_dir \o SQ)
    ELSE IF cmd \notin Programs
    THEN Return(s, NotFoundPre \o cmd \o NotFoundPost)
    ELSE IF ext.duration > Timeout
    THEN Return(s, TimedOutText)
    ELSE Return(s, Strip(captured(ext)))

\* subprocess.run(full_command, cwd=self.current_dir, ...): whether a child
\* process is started
spawns(s, cmd) == s.current_dir \notin NoSearchDirs /\ cmd \in Programs

\* subprocess.run(..., timeout=30): what has become of the child when the call
\* is over: it exited by itself, or run() killed and reaped it on expiry
child_fate(s, cmd, ext) ==
    IF ~spawns(s, cmd) THEN "none"
    ELSE IF ext.duration > Timeout THEN "killed" ELSE "exited"

\* how long the child would run if it were left alone; 0 without a child
child_duration(s, cmd, ext) == IF spawns(s, cmd) THEN ext.duration ELSE 0

(* ----------------------------- dispatcher --------------------------- *)

\* self.builtin_commands[cmd](args)
call_handler(handler, s, args, text) ==
    CASE handler = "cmd_cd" -> cmd_cd(s, args)
      [] handler = "cmd_pwd" -> cmd_pwd(s, args)
      [] handler = "cmd_echo" -> cmd_echo(s, args)
      [] handler = "cmd_env" -> cmd_env(s, args)
      [] handler = "cmd_export" -> cmd_export(s, args)
      [] handler = "cmd_history" -> cmd_history(s, args)
      [] handler = "cmd_clear" -> cmd_clear(s, args)
      [] handler = "cmd_exit" -> cmd_exit(s, args)
      [] handler = "cmd_alias" -> cmd_alias(s, args)
      [] handler = "cmd_unalias" -> cmd_unalias(s, args)
      [] OTHER -> cmd_passthrough(s, args, text)

\* record_history without the test for an empty line
record_history_always(s, command_line) ==
    [s EXCEPT !.command_history = Append(@, command_line)]

\* record_history that skips a line equal to the newest entry
record_history_nodup(s, command_line) ==
    IF Strip(command_line) # <<>>
       /\ (s.command_history = <<>>
           \/ s.command_history[Len(s.command_history)] # command_line)
    THEN [s EXCEPT !.command_history = Append(@, command_line)]
    ELSE s

\* "Add to history": the first statement of the try block
record_history(s, command_line) ==
    IF Strip(command_line) # <<>>
    THEN [s EXCEPT !.command_history = Append(@, command_line)]
    ELSE s

\* resolve_alias with the registry consulted before the alias table
resolve_builtin_first(alias_table, cmd) ==
    IF cmd \in DOMAIN builtin_commands THEN cmd
    ELSE IF Has(alias_table, cmd) THEN Get(alias_table, cmd) ELSE cmd

\* resolve_alias applied again to its own result
resolve_alias_chain(alias_table, cmd) ==
    IF ~Has(alias_table, cmd) THEN cmd
    ELSE IF Has(alias_table, Get(alias_table, cmd))
    THEN Get(alias_table, Get(alias_table, cmd))
    ELSE Get(alias_table, cmd)

\* "Check for aliases": cmd after the alias check
resolve_alias(alias_table, cmd) ==
    IF Has(alias_table, cmd) THEN Get(alias_table, cmd) ELSE cmd

\* "Execute built-in commands" / "Execute external commands".  Beside the
\* handler's result (res) the record tells what was dispatched: head is
\* tokens[0], aliased tells whether it was an alias key, name is cmd after the
\* alias check, args the argument list, kind the branch taken.
route(s1, head, cmd, args, host) ==
    IF cmd \in DOMAIN builtin_commands
    THEN [res |-> call_handler(builtin_commands[cmd], s1, args, host.text),
          kind |-> "builtin", head |-> head, aliased |-> Has(s1.aliases, head),
          name |-> cmd, args |-> args, child |-> "none", duration |-> 0]
    ELSE [res |-> execute_external_command(s1, cmd, args, host.ext),
          kind |-> "external", head |-> head, aliased |-> Has(s1.aliases, head),
          name |-> cmd, args |-> args, child |-> child_fate(s1, cmd, host.ext),
          duration |-> child_duration(s1, cmd, host.ext)]

\* the try block of execute_command after tokenizing; kind "none": no tokens
dispatch_tokens(s1, tokens, host) ==
    IF tokens = <<>>
    THEN [res |-> Return(s1, <<>>), kind |-> "none", head |-> <<>>,
          aliased |-> FALSE, name |-> <<>>, args |-> <<>>, child |-> "none",
          duration |-> 0]
    ELSE route(s1, tokens[1], resolve_alias(s1.aliases, tokens[1]),
               IF Len(tokens) > 1 THEN Tail(tokens) ELSE <<>>, host)

\* the body of the try block of execute_command
dispatch(s, command_line, host) ==
    dispatch_tokens(record_history(s, command_line), parse_command(command_line),
                    host)

\* catch_all without the except clause: the exception leaves execute_command
catch_none(d) ==
    d @@ [fault |-> d.res.exc, msg |-> IF d.res.exc THEN d.res.ret ELSE <<>>]

\* except Exception as e: return f"Error: {str(e)}"; fault keeps whether (and
\* with which message) the clause was entered
catch_all(d) ==
    [d EXCEPT !.res = IF d.res.exc THEN Return(d.res.s, ErrorPrefix \o d.res.ret)
                       ELSE d.res]
    @@ [fault |-> d.res.exc, msg |-> IF d.res.exc THEN d.res.ret ELSE <<>>]

execute_command(s, command_line, host) == catch_all(dispatch(s, command_line, host))

(* ------------------------------- inputs ----------------------------- *)

l_empty == <<>>
l_blank == <<" "," ">>
l_exit == <<"e","x","i","t">>
l_echo_EXIT == <<"e","c","h","o"," ","E","X","I","T">>
l_alias_exit == <<"a","l","i","a","s"," ","e","x","i","t","=","e","c","h","o">>
l_alias_ll == <<"a","l","i","a","s"," ","l","l","=","\"","l","s"," ","-","l","\"">>
l_ll == <<"l","l"," ","/","t","m","p"," ","e","x","t","r","a">>
l_cd_s == <<"c","d"," ","s">>
l_cd_m == <<"c","d"," ","m">>
l_cd_x == <<"c","d"," ","x">>
l_cd_dash == <<"c","d"," ","-">>
l_history == <<"h","i","s","t","o","r","y">>
l_alias_pwd == <<"a","l","i","a","s"," ","p","w","d","=","e","c","h","o">>
l_pwd == <<" ","p","w","d"," ","a"," ">>
l_export_bad == <<"e","x","p","o","r","t"," ","=","v">>
l_p == <<"p">>
l_q == <<"q">>
l_dir == <<"d","i","r">>
l_cd == <<"c","d">>
l_cd_f == <<"c","d"," ","f">>
l_alias_cycle == <<"a","l","i","a","s"," ","e","c","h","o","=","p","w","d"," ","p","w","d","=","e","c","h","o">>
l_alias_self == <<"a","l","i","a","s"," ","q","=","q">>
l_export_mixed == <<"e","x","p","o","r","t"," ","a","=","1"," ","b"," ","c","=","2">>

\* the lines a user types
Lines ==
    {l_blank, l_exit, l_echo_EXIT, l_alias_exit,
     l_alias_ll, l_ll, l_cd_s, l_cd_m, l_cd_x,
     l_cd_dash, l_history, l_alias_pwd, l_pwd, l_export_bad,
     l_p, l_q, l_dir, l_cd,
     l_cd_f, l_alias_cycle, l_alias_self, l_export_mixed}

\* texts the host gives to a handler that lists or reads (a directory whose only
\* entry, or a file whose content, is the word EXIT)
HostTexts == { <<>>, EXIT }

Ext0 == [duration |-> 1, stdout |-> <<>>, stderr |-> <<>>]

Host0 == [ext |-> Ext0, text |-> <<>>]

\* the host behaviours that matter for a dispatched line
host_choices_of(d) ==
    IF d.kind = "external"
    THEN { [ext |-> e, text |-> <<>>] : e \in ExtBehaviours }
    ELSE IF d.kind = "builtin" /\ builtin_commands[d.name] \notin SessionHandlers
    THEN { [ext |-> Ext0, text |-> t] : t \in HostTexts }
    ELSE { Host0 }

\* the host behaviours that matter for a line: a child's behaviour when the line
\* goes to the external bridge, the host's text when it goes to a passthrough
HostChoices(s, command_line) == host_choices_of(dispatch(s, command_line, Host0))

(* ------------------------------- state ------------------------------ *)

VARIABLES
    current_dir,       \* self.current_dir
    command_history,   \* self.command_history
    environment_vars,  \* self.environment_vars
    aliases,           \* self.aliases
    os_cwd,            \* the OS-level current directory of the process
    os_environ,        \* os.environ, the environment child processes inherit
    pc,                \* where run() is: "prompt" in the loop, "goodbye" after the
                       \* break on EXIT, "eof" after the break on EOFError
    output,            \* the value the last call of execute_command returned
    last,              \* the last line run() read and how it was dispatched
    trail,             \* per executed line: current_dir after it, and whether it
                       \* was a cd that returned ""
    front,             \* the driving loop: "text" (run()), "ui" (terminal_ui.py)
                       \* or "themed" (terminal_engine.py)
    history,           \* TerminalUI.history, the recall list of a GUI
    history_index,     \* TerminalUI.history_index, the recall cursor
    entry,             \* the text in the input widget of a GUI
    mode,              \* self.terminal.mode of the themed GUI's engine
    current_theme,     \* TerminalUI.current_theme of the themed GUI
    recall,            \* the last Up/Down key event: which key, the index it read
    scan_line,         \* a line handed to parse_command on its own
    scan_tokens        \* what parse_command returned for scan_line

vars == <<current_dir, command_history, environment_vars, aliases, os_cwd,
          os_environ, pc, output, last, trail, front, history, history_index,
          entry, mode, current_theme, recall, scan_line, scan_tokens>>

gui_vars == <<front, history, history_index, entry, mode, current_theme, recall>>

scan_vars == <<scan_line, scan_tokens>>

session_vars == <<current_dir, command_history, environment_vars, aliases,
                  os_cwd, os_environ>>

\* the session and host state as the record the operators work on
Session ==
    [current_dir |-> current_dir, command_history |-> command_history,
     environment_vars |-> environment_vars, aliases |-> aliases,
     os_cwd |-> os_cwd, os_environ |-> os_environ]

\* environments the process may be started with
InitEnvs ==
    { << <<HOME, PwdHome>> >>,
      << <<HOME, PwdHome>>, <<OLDPWD, PwdHome>> >> }

\* no line read yet, or a line run() skipped
NoDispatch(line) ==
    [line |-> line, executed |-> FALSE, kind |-> "none", head |-> <<>>,
     aliased |-> FALSE, name |-> <<>>, args |-> <<>>, fault |-> FALSE,
     msg |-> <<>>, raised |-> FALSE, child |-> "none", duration |-> 0]

\* no Up or Down key event yet
NoRecall == [key |-> "none", read |-> <<>>]

\* PythonTerminal.__init__
InitSession ==
    /\ current_dir = StartDir
    /\ os_cwd = StartDir
    /\ command_history = <<>>
    /\ os_environ \in InitEnvs
    /\ environment_vars = os_environ
    /\ aliases = <<>>
    /\ pc = "prompt"
    /\ output = <<>>
    /\ last = NoDispatch(<<>>)
    /\ trail = <<>>

\* TerminalUI.__init__ (both variants): self.history = [], self.history_index = -1;
\* the engine starts in shell mode
InitGui ==
    /\ history = <<>>
    /\ history_index = -1
    /\ entry = <<>>
    /\ mode = "shell"
    /\ current_theme = "dark"
    /\ recall = NoRecall

\* no line handed to parse_command on its own
InitScan ==
    /\ scan_line = <<>>
    /\ scan_tokens = <<>>

\* PythonTerminal.__init__ and the start of run()
Init ==
    /\ InitSession
    /\ front = "text"
    /\ InitGui
    /\ InitScan

\* the cd lines of a session that only changes directory
CdLines == {l_cd_s, l_cd_dash, l_cd, l_cd_x}

\* the bound on the sessions that are followed
LineAllowed(command) ==
    \/ Len(command_history) < MaxFree
    \/ /\ command = l_history
       /\ Len(command_history) < MaxHistory
       /\ \A i \in 1..Len(command_history) : command_history[i] = l_history
    \/ /\ command \in CdLines
       /\ Len(command_history) < MaxCd
       /\ \A i \in 1..Len(command_history) : command_history[i] \in CdLines

\* the call was a cd that returned ""
cd_succeeded(r) ==
    /\ r.kind = "builtin"
    /\ builtin_commands[r.name] = "cmd_cd"
    /\ ~r.res.exc
    /\ r.res.ret = <<>>

\* output = self.execute_command(command): the session after the call.  r is
\* the outcome of the call; an exception that leaves execute_command is caught
\* by run() and the loop goes on.
Executed(typed, r) ==
    /\ current_dir' = r.res.s.current_dir
    /\ command_history' = r.res.s.command_history
    /\ environment_vars' = r.res.s.environment_vars
    /\ aliases' = r.res.s.aliases
    /\ os_cwd' = r.res.s.os_cwd
    /\ os_environ' = r.res.s.os_environ
    /\ last' = [line |-> typed, executed |-> TRUE, kind |-> r.kind,
                head |-> r.head, aliased |-> r.aliased, name |-> r.name,
                args |-> r.args, fault |-> r.fault, msg |-> r.msg,
                raised |-> r.res.exc, child |-> r.child, duration |-> r.duration]
    /\ output' = IF r.res.exc THEN output ELSE r.res.ret
    /\ trail' = Append(trail, [line |-> Strip(typed),
                               dir |-> r.res.s.current_dir,
                               cd_ok |-> cd_succeeded(r)])

\* run(): if output == "EXIT": print("Goodbye!"); break
AfterExecute(typed, r) ==
    /\ Executed(typed, r)
    /\ pc' = IF ~r.res.exc /\ r.res.ret = EXIT THEN "goodbye" ELSE "prompt"

\* run(): command = input(prompt).strip(); if not command: continue
ReadLine(typed, command) ==
    IF command = <<>>
    THEN /\ last' = NoDispatch(typed)
         /\ UNCHANGED <<session_vars, pc, output, trail>>
    ELSE /\ LineAllowed(command)
         /\ \E host \in HostChoices(Session, command) :
              AfterExecute(typed, execute_command(Session, command, host))

\* one pass of the while loop of run()
RunStep ==
    /\ front = "text"
    /\ pc = "prompt"
    /\ \E typed \in Lines : ReadLine(typed, Strip(typed))
    /\ UNCHANGED <<gui_vars, scan_vars>>

\* input() raises KeyboardInterrupt: "^C" is printed and the loop goes on
Interrupt ==
    /\ front = "text"
    /\ pc = "prompt"
    /\ UNCHANGED vars

\* input() raises EOFError: break
EndOfInput ==
    /\ front = "text"
    /\ pc = "prompt"
    /\ pc' = "eof"
    /\ UNCHANGED <<session_vars, output, last, trail, gui_vars, scan_vars>>

Next == RunStep \/ Interrupt \/ EndOfInput

Spec == Init /\ [][Next]_vars

(* ------------------------ the tokenizer on its own ------------------ *)

\* the characters of the lines that are built: letters, space, both quotes
Alphabet == {"a", "b", " ", "\"", "'"}

ex_quoted == <<"a"," ","\"","b"," ","c","\""," ","d">>
ex_open == <<"a"," ","\"","b">>
ex_mixed == <<"a","\"","b","'"," ","c","\"","d"," ","'","'">>

\* longer lines that are handed over as they are
Examples == {ex_quoted, ex_open, ex_mixed}

\* tokens = self.parse_command(command_line)
Tokenize(line) ==
    /\ scan_line' = line
    /\ scan_tokens' = parse_command(line)
    /\ UNCHANGED <<session_vars, pc, output, last, trail, gui_vars>>

\* the line grows by one character and is tokenized
ScanChar ==
    /\ Len(scan_line) < MaxLine
    /\ \E c \in Alphabet : Tokenize(Append(scan_line, c))

\* one of the longer lines is tokenized
ScanExample == \E e \in Examples : Tokenize(e)

NextScan == ScanChar \/ ScanExample

SpecScan == Init /\ [][NextScan]_vars

(* --------------------------- GUI front ends ------------------------- *)

l_theme == <<"t","h","e","m","e">>
l_Theme == <<"T","h","e","m","e">>
l_python == <<"p","y","t","h","o","n">>

\* the lines a user types into the input widget
GuiLines == {l_blank, l_exit, l_pwd, l_Theme, l_python}

Fronts == {"text", "ui", "themed"}

\* str.lower()
UpperCase == <<"A","B","C","D","E","F","G","H","I","J","K","L","M",
               "N","O","P","Q","R","S","T","U","V","W","X","Y","Z">>

LowerCase == <<"a","b","c","d","e","f","g","h","i","j","k","l","m",
               "n","o","p","q","r","s","t","u","v","w","x","y","z">>

lower_char(c) ==
    IF \E k \in 1..Len(UpperCase) : UpperCase[k] = c
    THEN LowerCase[CHOOSE k \in 1..Len(UpperCase) : UpperCase[k] = c]
    ELSE c

Lower(s) == [i \in 1..Len(s) |-> lower_char(s[i])]

\* max(a, b), min(a, b)
Max(a, b) == IF a >= b THEN a ELSE b

Min(a, b) == IF a <= b THEN a ELSE b

\* self.history[i] for a 0-based i: a negative i counts from the end; outside
\* the list IndexError is raised after the widget was emptied
py_item(list, i) ==
    IF i >= 0 /\ i < Len(list) THEN list[i + 1]
    ELSE IF i < 0 /\ i >= 0 - Len(list) THEN list[Len(list) + i + 1]
    ELSE <<>>

\* The engine of the themed GUI (PythonTerminal with a mode).  The reserved
\* meta-command switches between the shell and the sub-mode and is recognized
\* before tokenization and dispatch.
MetaCommand == l_python

engine_mode(m, command) ==
    IF command # MetaCommand THEN m
    ELSE IF m = "shell" THEN "python" ELSE "shell"

\* a line of the sub-mode goes to the sub-interpreter, which returns its text
submode_line(s, text) ==
    [res |-> Return(s, text), kind |-> "submode", head |-> <<>>,
     aliased |-> FALSE, name |-> <<>>, args |-> <<>>, child |-> "none",
     duration |-> 0]

\* execute_command of the engine
engine_execute(s, m, command, host) ==
    IF command = MetaCommand THEN catch_all(dispatch_tokens(s, <<>>, host))
    ELSE IF m = "python" THEN catch_all(submode_line(s, host.text))
    ELSE execute_command(s, command, host)

\* the host behaviours that matter for a line given to the engine
engine_hosts(s, m, command) ==
    IF command = MetaCommand THEN { Host0 }
    ELSE IF m = "python" THEN { [ext |-> Ext0, text |-> x] : x \in HostTexts }
    ELSE HostChoices(s, command)

\* the bound on the lines a GUI session executes
GuiAllowed == Len(trail) < MaxFree

\* the user edits the text of the input widget
GuiType ==
    /\ front \in {"ui", "themed"}
    /\ pc \in {"prompt", "quitting"}
    /\ \E text \in GuiLines : entry # text /\ entry' = text
    /\ UNCHANGED <<session_vars, pc, output, last, trail, front, history,
                   history_index, mode, current_theme, recall, scan_vars>>

\* terminal_ui.py, run_command after output = self.terminal.execute_command(command):
\* on EXIT self.master.quit(); then self.entry.delete(0, tk.END)
ui_after_execute(r) ==
    /\ AfterExecute(entry, r)
    /\ entry' = IF r.res.exc THEN entry ELSE <<>>

\* terminal_ui.py, TerminalUI.run_command
ui_run_command(command) ==
    IF command = <<>>
    THEN UNCHANGED <<session_vars, pc, output, last, trail, history,
                     history_index, entry>>
    ELSE /\ GuiAllowed
         /\ history' = Append(history, command)
         /\ history_index' = Len(history) + 1
         /\ \E host \in HostChoices(Session, command) :
              ui_after_execute(execute_command(Session, command, host))

\* <Return> in terminal_ui.py
UiReturn ==
    /\ front = "ui"
    /\ pc = "prompt"
    /\ ui_run_command(Strip(entry))
    /\ UNCHANGED <<front, mode, current_theme, recall, scan_vars>>

\* terminal_engine.py, run_command after output = self.terminal.execute_command(command):
\* on EXIT self.master.after(500, self.master.quit) and return; else
\* self.input_box.delete("1.0", tk.END)
themed_after_execute(command, r) ==
    /\ Executed(entry, r)
    /\ mode' = engine_mode(mode, command)
    /\ pc' = IF ~r.res.exc /\ r.res.ret = EXIT THEN "quitting" ELSE pc
    /\ entry' = IF r.res.exc \/ r.res.ret = EXIT THEN entry ELSE <<>>
    /\ UNCHANGED current_theme

\* terminal_engine.py, TerminalUI.toggle_theme
toggle_theme == current_theme' = IF current_theme = "dark" THEN "light" ELSE "dark"

\* terminal_engine.py, TerminalUI.run_command
themed_run_command(command) ==
    IF Lower(command) = l_theme
    THEN /\ toggle_theme
         /\ entry' = <<>>
         /\ UNCHANGED <<session_vars, pc, output, last, trail, history,
                        history_index, mode>>
    ELSE IF mode = "shell" /\ command = <<>>
    THEN UNCHANGED <<session_vars, pc, output, last, trail, history,
                     history_index, mode, entry, current_theme>>
    ELSE /\ GuiAllowed
         /\ history' = IF mode = "shell" THEN Append(history, command) ELSE history
         /\ history_index' = IF mode = "shell" THEN Len(history) + 1
                             ELSE history_index
         /\ \E host \in engine_hosts(Session, mode, command) :
              themed_after_execute(command,
                                   engine_execute(Session, mode, command, host))

\* <Return> in terminal_engine.py; the main loop runs until the quit timer fires
ThemedReturn ==
    /\ front = "themed"
    /\ pc \in {"prompt", "quitting"}
    /\ themed_run_command(Strip(entry))
    /\ UNCHANGED <<front, recall, scan_vars>>

\* self.master.after(500, self.master.quit): the timer fires
QuitTimer ==
    /\ front = "themed"
    /\ pc = "quitting"
    /\ pc' = "goodbye"
    /\ UNCHANGED <<session_vars, output, last, trail, gui_vars, scan_vars>>

\* a key handler that reads self.history[idx] into the input widget
Recalled(key, idx) ==
    /\ history_index' = idx
    /\ recall' = [key |-> key, read |-> <<idx>>]
    /\ entry' = py_item(history, idx)

\* a key handler that moves the cursor and empties the input widget
Cleared(key, idx) ==
    /\ history_index' = idx
    /\ recall' = [key |-> key, read |-> <<>>]
    /\ entry' = <<>>

\* a key handler that does nothing
KeyIgnored(key) ==
    /\ recall' = [key |-> key, read |-> <<>>]
    /\ UNCHANGED <<history_index, entry>>

\* terminal_ui.py, TerminalUI.history_up
ui_history_up ==
    IF history # <<>>
    THEN Recalled("Up", Max(0, history_index - 1))
    ELSE KeyIgnored("Up")

\* terminal_ui.py, history_down after the cursor was moved to idx
ui_down_to(idx) ==
    IF idx < Len(history) THEN Recalled("Down", idx) ELSE Cleared("Down", idx)

\* ui_history_down with the cursor allowed to move one past the last entry
ui_history_down_past_end ==
    IF history # <<>>
    THEN Recalled("Down", Min(Len(history), history_index + 1))
    ELSE KeyIgnored("Down")

\* terminal_ui.py, TerminalUI.history_down
ui_history_down ==
    IF history # <<>>
    THEN ui_down_to(Min(Len(history) - 1, history_index + 1))
    ELSE KeyIgnored("Down")

\* terminal_engine.py, TerminalUI.history_up
themed_history_up ==
    IF mode = "shell" /\ history # <<>>
    THEN Recalled("Up", Max(0, history_index - 1))
    ELSE KeyIgnored("Up")

\* terminal_engine.py, TerminalUI.history_down
themed_history_down ==
    IF mode = "shell" /\ history # <<>>
    THEN IF history_index < Len(history) - 1
         THEN Recalled("Down", history_index + 1)
         ELSE Cleared("Down", Len(history))
    ELSE KeyIgnored("Down")

\* what a key event leaves alone
KeyFrame ==
    UNCHANGED <<session_vars, pc, output, last, trail, front, history, mode,
                current_theme, scan_vars>>

\* <Up> and <Down> in terminal_ui.py
UiUp == front = "ui" /\ pc = "prompt" /\ ui_history_up /\ KeyFrame

UiDown == front = "ui" /\ pc = "prompt" /\ ui_history_down /\ KeyFrame

\* <Up> and <Down> in terminal_engine.py
ThemedUp ==
    front = "themed" /\ pc \in {"prompt", "quitting"} /\ themed_history_up /\ KeyFrame

ThemedDown ==
    front = "themed" /\ pc \in {"prompt", "quitting"} /\ themed_history_down
    /\ KeyFrame

\* the session is driven by run() or by one of the two GUIs
InitFront ==
    /\ InitSession
    /\ front \in Fronts
    /\ InitGui
    /\ InitScan

NextFront ==
    \/ RunStep \/ Interrupt \/ EndOfInput
    \/ GuiType \/ UiReturn \/ UiUp \/ UiDown
    \/ ThemedReturn \/ ThemedUp \/ ThemedDown \/ QuitTimer

SpecFront == InitFront /\ [][NextFront]_vars

(* ------------------------------- claims ----------------------------- *)

w_ll == <<"l","l">>
w_ls_l == <<"l","s"," ","-","l">>
w_minus_l == <<"-","l">>
w_tmp == <<"/","t","m","p">>
w_extra == <<"e","x","t","r","a">>
w_a == <<"a">>
p_d_m == <<"/","d","/","m">>

\* the lines run() skips
BlankLines == { l_empty, l_blank }

\* the handler of the command the last line ran, "" when none ran
LastHandler ==
    IF last.executed /\ last.kind = "builtin" THEN builtin_commands[last.name]
    ELSE ""

\* C1: with the alias ll defined as `ls -l`, the line `ll /tmp extra` runs the
\* built-in ls with the arguments ["-l", "/tmp", "extra"].
C1_AliasRoundTrip ==
    (/\ last.executed
     /\ last.line = l_ll
     /\ Has(aliases, w_ll)
     /\ Get(aliases, w_ll) = w_ls_l)
    => /\ last.kind = "builtin"
       /\ last.name = n_ls
       /\ last.args = <<w_minus_l, w_tmp, w_extra>>

\* C2: execute_command returns exactly EXIT only when the command that ran is
\* the exit command.
C2_OnlyExitReturnsSentinel ==
    (last.executed /\ ~last.raised /\ output = EXIT) => LastHandler = "cmd_exit"

\* C3: whatever aliases are defined, the line `exit` returns EXIT and stops the
\* session.
C3_ExitNotOverridable ==
    (last.executed /\ Strip(last.line) = l_exit)
    => (output = EXIT /\ pc = "goodbye")

\* C4: between two commands the session's current_dir equals the OS-level
\* current directory.
C4_DirInSync == current_dir = os_cwd

\* C5: a cd whose target is not an existing directory returns
\* "cd: <absolute target>: No such file or directory" and leaves the current
\* directory and the OLDPWD key as they were.
C5_CdMissingTarget ==
    [][ (/\ command_history' # command_history
         /\ last'.executed
         /\ last'.kind = "builtin"
         /\ builtin_commands[last'.name] = "cmd_cd"
         /\ cd_target(Session, last'.args) \notin Dirs)
        => /\ isabs(cd_target(Session, last'.args))
           /\ output' = CdPrefix \o cd_target(Session, last'.args) \o NoSuchFile
           /\ current_dir' = current_dir
           /\ os_cwd' = os_cwd
           /\ Has(environment_vars', OLDPWD) = Has(environment_vars, OLDPWD)
           /\ GetOr(environment_vars', OLDPWD, <<>>)
                = GetOr(environment_vars, OLDPWD, <<>>) ]_vars

\* C5 witness: `cd m` was run in /d, where m does not exist
C5_Witness ==
    /\ LastHandler = "cmd_cd"
    /\ last.args = << <<"m">> >>
    /\ output = CdPrefix \o p_d_m \o NoSuchFile
    /\ current_dir = StartDir

\* C6: no fault ends the loop: execute_command always returns a str, a fault
\* is returned as the text "Error: <message>", and the loop is left only on
\* the EXIT value or at end of input.
C6_FaultsRendered ==
    /\ ~last.raised
    /\ last.fault => output = ErrorPrefix \o last.msg
    /\ pc \in {"prompt", "goodbye", "eof"}
    /\ pc = "goodbye" => output = EXIT

\* C6 witness: a handler raised (export with an empty name) and the loop reads on
C6_Witness ==
    /\ last.fault
    /\ LastHandler = "cmd_export"
    /\ output = ErrorPrefix \o EInval
    /\ pc = "prompt"

\* C7: every entry the history command shows carries its 1-based position in
\* the history log.
C7_HistoryNumbers ==
    LastHandler = "cmd_history"
    => LET n == Len(command_history)
           m == IF n <= HistoryView THEN n ELSE HistoryView
       IN output = Join([k \in 1..m |->
                           PadLeft(Str(n - m + k), NumWidth) \o SP
                             \o command_history[n - m + k]], NL)

\* C8: an empty or whitespace-only line changes nothing: execute_command
\* returns "" for it, dispatches nothing and leaves history, directory,
\* environment and aliases as they are, and so does the loop that reads it.
C8_BlankLineNoEffect ==
    [][ /\ \A l \in BlankLines :
             /\ execute_command(Session, l, Host0).res = Return(Session, <<>>)
             /\ execute_command(Session, l, Host0).kind = "none"
        /\ (last'.line \in BlankLines /\ last' # last)
           => (~last'.executed /\ UNCHANGED <<session_vars, output, pc>>) ]_vars

\* C8 witness: a whitespace-only line was read in the middle of a session
C8_Witness ==
    /\ last.line = l_blank
    /\ ~last.executed
    /\ command_history # <<>>

\* C9: the history log is append-only: a step either leaves it as it is (no
\* line was executed) or appends the executed line as it was submitted, whatever
\* the command did.
C9_HistoryAppendOnly ==
    [][ \/ /\ command_history' = command_history
           /\ ~(last'.executed /\ last' # last)
        \/ /\ last'.executed
           /\ command_history' = Append(command_history, Strip(last'.line)) ]_vars

\* C9 witness: a line whose head is an alias and whose command was not found is
\* the newest entry, as typed
C9_Witness ==
    /\ Len(command_history) >= 2
    /\ last.executed /\ last.aliased /\ last.kind = "external"
    /\ StartsWith(output, NotFoundPre)
    /\ command_history[Len(command_history)] = l_ll

\* C10: a name that is a built-in and an alias key is resolved as the alias:
\* the replacement is what is looked up in the registry (else sent to the
\* external bridge), with the line's arguments.
C10_AliasBeforeBuiltin ==
    [][ (/\ command_history' # command_history
         /\ last'.executed
         /\ parse_command(Strip(last'.line)) # <<>>
         /\ Has(aliases, parse_command(Strip(last'.line))[1])
         /\ parse_command(Strip(last'.line))[1] \in DOMAIN builtin_commands)
        => /\ last'.name = Get(aliases, parse_command(Strip(last'.line))[1])
           /\ last'.args = Tail(parse_command(Strip(last'.line)))
           /\ last'.kind = IF last'.name \in DOMAIN builtin_commands
                           THEN "builtin" ELSE "external" ]_vars

\* C10 witness: pwd is aliased to echo, and `pwd a` ran echo
C10_Witness ==
    /\ last.executed /\ last.aliased
    /\ last.head = n_pwd
    /\ LastHandler = "cmd_echo"
    /\ output = w_a

\* the tokens of the line the step executes, and its head token
StepTokens == parse_command(Strip(last'.line))

StepHead == StepTokens[1]

\* C11: the alias table is applied once per line: when the replacement of the
\* head token is itself an alias key, the replacement is the name that is looked
\* up in the registry (else sent to the external bridge), and the alias of the
\* replacement is not applied.
C11_AliasResolvedOnce ==
    [][ (/\ command_history' # command_history
         /\ last'.executed
         /\ StepTokens # <<>>
         /\ Has(aliases, StepHead)
         /\ Has(aliases, Get(aliases, StepHead)))
        => /\ last'.name = Get(aliases, StepHead)
           /\ last'.args = Tail(StepTokens)
           /\ last'.kind = IF Get(aliases, StepHead) \in DOMAIN builtin_commands
                           THEN "builtin" ELSE "external" ]_vars

\* C11 witness: pwd and echo are aliases of each other, and `pwd a` ran echo
C11_Witness ==
    /\ Has(aliases, n_pwd) /\ Get(aliases, n_pwd) = n_echo
    /\ Has(aliases, n_echo) /\ Get(aliases, n_echo) = n_pwd
    /\ last.executed /\ last.head = n_pwd
    /\ LastHandler = "cmd_echo"
    /\ output = w_a

\* C12: no entry of the alias table has a replacement equal to its own name.
C12_NoSelfAlias ==
    \A i \in 1..Len(aliases) : aliases[i][2] # aliases[i][1]

\* C13: every variable of the session's environment map has the same value in
\* the environment of the process, which child processes inherit.
C13_EnvMirrored ==
    \A i \in 1..Len(environment_vars) :
        /\ Has(os_environ, environment_vars[i][1])
        /\ Get(os_environ, environment_vars[i][1]) = environment_vars[i][2]

\* the argument is of the form key=value
WellFormed(arg) == Contains(arg, "=")

\* C14: after export with arguments, every key=value argument is in the
\* environment map (the last value given for a key), and every argument
\* without "=" is named in an error line of the returned text.
C14_ExportAllArguments ==
    (LastHandler = "cmd_export" /\ last.args # <<>>)
    => \A i \in 1..Len(last.args) :
          IF WellFormed(last.args[i])
          THEN (\A j \in (i + 1)..Len(last.args) :
                   WellFormed(last.args[j])
                   => SplitFirst(last.args[j], "=")[1]
                        # SplitFirst(last.args[i], "=")[1])
               => /\ Has(environment_vars, SplitFirst(last.args[i], "=")[1])
                  /\ Get(environment_vars, SplitFirst(last.args[i], "=")[1])
                       = SplitFirst(last.args[i], "=")[2]
          ELSE \E k \in 1..Len(Split(output, "\n")) :
                  Split(output, "\n")[k] = ExportInvalidPre \o last.args[i] \o SQ

\* C15: an external command that runs longer than the timeout returns the
\* timed-out text, its child is killed, and the loop is at the prompt again.
C15_TimeoutYieldsTimedOut ==
    [][ (/\ trail' # trail
         /\ last'.kind = "external"
         /\ last'.duration > Timeout)
        => /\ output' = TimedOutText
           /\ last'.child = "killed"
           /\ ~last'.raised
           /\ pc' = "prompt" ]_vars

\* C15 witness: the program p was started and ran longer than the timeout
C15_Witness ==
    /\ last.executed /\ last.kind = "external"
    /\ last.name = <<"p">>
    /\ last.duration = Timeout + 1
    /\ last.child = "killed"
    /\ output = TimedOutText
    /\ pc = "prompt"

\* the name the step looks up: the head token after one alias substitution
StepName ==
    IF Has(aliases, StepHead) THEN Get(aliases, StepHead) ELSE StepHead

\* C16: a line whose head token, after alias resolution, is not a built-in goes
\* to the external bridge with the remaining tokens; when there is no such
\* program the result is "Error: Command '<name>' not found" and directory,
\* environment and aliases are unchanged.
C16_ExternalNotFound ==
    [][ (/\ command_history' # command_history
         /\ last'.executed
         /\ StepTokens # <<>>
         /\ StepName \notin DOMAIN builtin_commands)
        => /\ last'.kind = "external"
           /\ last'.name = StepName
           /\ last'.args = Tail(StepTokens)
           /\ StepName \notin Programs
              => /\ output' = NotFoundPre \o StepName \o NotFoundPost
                 /\ UNCHANGED <<current_dir, os_cwd, environment_vars,
                                os_environ, aliases>> ]_vars

\* the quote character that is open before position i of the line, "" if none
RECURSIVE OpenQuote(_, _)
OpenQuote(line, i) ==
    IF i = 1 THEN ""
    ELSE IF OpenQuote(line, i - 1) = ""
    THEN (IF line[i - 1] \in {"\"", "'"} THEN line[i - 1] ELSE "")
    ELSE IF line[i - 1] = OpenQuote(line, i - 1) THEN ""
    ELSE OpenQuote(line, i - 1)

\* what the character at position i is: a quote that is consumed ("quote"), an
\* unquoted space ("space") or a character of a token ("literal")
Role(line, i) ==
    IF OpenQuote(line, i) = ""
    THEN (IF line[i] \in {"\"", "'"} THEN "quote"
          ELSE IF line[i] = " " THEN "space" ELSE "literal")
    ELSE IF line[i] = OpenQuote(line, i) THEN "quote" ELSE "literal"

\* the line with every unquoted space replaced by the mark "SPACE" and every
\* consumed quote removed
Marked(line) ==
    SelectSeq([i \in 1..Len(line) |->
                 IF Role(line, i) = "space" THEN "SPACE"
                 ELSE IF Role(line, i) = "quote" THEN "QUOTE" ELSE line[i]],
              LAMBDA c : c # "QUOTE")

\* the tokens of the reference scan: the non-empty pieces between the marks
RefTokens(line) ==
    SelectSeq(Split(Marked(line), "SPACE"), LAMBDA piece : piece # <<>>)

\* C17: parse_command returns the tokens of the reference scan: unquoted
\* spaces separate tokens, a quote and its matching closing quote are consumed,
\* the other quote character and spaces inside quotes are kept, an unterminated
\* quote runs to the end of the line, and no token is empty.
C17_TokenizerMatchesScan ==
    /\ scan_tokens = RefTokens(scan_line)
    /\ \A k \in 1..Len(scan_tokens) : scan_tokens[k] # <<>>
    /\ scan_line = ex_quoted
         => scan_tokens = << <<"a">>, <<"b"," ","c">>, <<"d">> >>
    /\ scan_line = ex_open => scan_tokens = << <<"a">>, <<"b">> >>

\* C17 witness: a line with an open quote holding the other quote character
\* and a space was tokenized
C17_Witness ==
    /\ scan_line = <<"\"", "'", " ", "a">>
    /\ scan_tokens = << <<"'", " ", "a">> >>

\* the last executed line returned the EXIT value
SentinelReturned == last.executed /\ ~last.raised /\ output = EXIT

\* C18: once the execution of a line has returned EXIT, no further line is
\* executed in the session, whichever loop drives it.
C18_TerminationAbsorbing ==
    [][ SentinelReturned => trail' = trail ]_vars

p_d_s == <<"/","d","/","s">>

\* the current directory before the k-th executed line
DirBefore(k) == IF k = 1 THEN StartDir ELSE trail[k - 1].dir

\* C19: after a cd that succeeded (it returned "" and the current directory is
\* an absolute existing directory X) from directory D, `cd -` makes D the
\* current directory, and a second `cd -` right after it makes X the current
\* directory again.
C19_PreviousDirectory ==
    \A k \in 1..Len(trail) :
        trail[k].cd_ok
        => /\ isabs(trail[k].dir) /\ isdir(trail[k].dir)
           /\ (k + 1 <= Len(trail) /\ trail[k + 1].line = l_cd_dash)
              => trail[k + 1].dir = DirBefore(k)
           /\ (/\ k + 2 <= Len(trail)
               /\ trail[k + 1].line = l_cd_dash
               /\ trail[k + 2].line = l_cd_dash)
              => trail[k + 2].dir = trail[k].dir

\* C19 witness: `cd s` from /d, then `cd -` twice: /d/s, /d, /d/s
C19_Witness ==
    /\ Len(trail) = 3
    /\ trail[1].line = l_cd_s /\ trail[1].cd_ok /\ trail[1].dir = p_d_s
    /\ trail[2].line = l_cd_dash /\ trail[2].dir = StartDir
    /\ trail[3].line = l_cd_dash /\ trail[3].dir = p_d_s
    /\ current_dir = p_d_s
    /\ output = <<>>

\* C20: in both GUIs the recall cursor is within 0..len(history) whenever the
\* recall list is non-empty, every read of history[history_index] by Up or Down
\* uses an index within 0..len(history)-1, and with an empty recall list Up and
\* Down change neither the cursor nor the input widget.
C20_RecallCursorInRange ==
    [][ /\ history' # <<>> => history_index' \in 0..Len(history')
        /\ recall'.read # <<>> => recall'.read[1] \in 0..(Len(history') - 1)
        /\ (history = <<>> /\ recall' # recall)
           => UNCHANGED <<history, history_index, entry>> ]_vars

\* C20 witness: in the themed GUI, with two entries in the recall list, Up was
\* pressed down to the first entry, which is in the input widget
C20_Witness ==
    /\ front = "themed"
    /\ Len(history) = 2
    /\ recall = [key |-> "Up", read |-> <<0>>]
    /\ history_index = 0
    /\ entry = history[1]

=============================================================================
